---- MODULE Spec2Model ----
(***************************************************************************)
(* Model of the flip-book back end (flipbook-backend/api/index.js, the     *)
(* revision with the flipbook_links table and the history endpoint) and of *)
(* the way the viewer reads a shareable link.                              *)
(*                                                                         *)
(* Strings the code takes apart (file names, identifiers, links) are       *)
(* sequences of one-character strings; strings it only passes around       *)
(* (blob URLs, messages) are TLA+ strings.                                 *)
(*                                                                         *)
(* A request occupies one of the slots in Procs from its arrival to its    *)
(* response; a step is taken wherever the handler awaits (put, sql), so    *)
(* the requests in flight interleave there.  resp[p] is the last response  *)
(* sent from slot p.  nreq numbers the requests; issued and lastWriter are *)
(* history variables: the identifiers uploads have derived, and for each   *)
(* identifier the request whose upsert committed last (last marks the one  *)
(* that wrote the table last of all).                                      *)
(*                                                                         *)
(* Spec runs the handlers concurrently on an empty table; SpecSeq runs     *)
(* them one request at a time over every input of the model, on an empty   *)
(* table or on one that already holds more rows than the history returns.  *)
(*                                                                         *)
(* ui is the state of the main viewer (unnamed/part_001) and the address   *)
(* of its page, net the HTTP calls it has made, screen the window and the  *)
(* geometry state of the viewers.  SpecView runs the viewer against the    *)
(* handlers: a call of the viewer reaches a handler, the handler answers,  *)
(* the continuation of the call runs.  SpecDims runs the geometry alone:   *)
(* resizes, toggleFullscreen and the callbacks they schedule.  SpecPages   *)
(* adds to SpecView the loading of the document and the turning of its     *)
(* pages.  SpecNames runs the uploads of Spec over files whose names       *)
(* differ only in characters the identifier replaces.                      *)
(*                                                                         *)
(* embed is the state of the viewers made for an iframe (unnamed/part_000, *)
(* which uploads, and unnamed/part_002, which only displays) and the       *)
(* address of their page; SpecEmbed runs them against the handlers.        *)
(***************************************************************************)
EXTENDS Integers, Sequences, FiniteSets, TLC

VARIABLES now, blobs, registry, req, resp, nreq, issued, lastWriter,
          ui, net, screen, embed

(* the back end, and the viewer in a browser window *)
server == <<now, blobs, registry, req, resp, nreq, issued, lastWriter>>
client == <<ui, net, screen, embed>>

vars == <<now, blobs, registry, req, resp, nreq, issued, lastWriter, ui, net, screen, embed>>

(***************************************************************************)
(* Bounds of the model.                                                    *)
(***************************************************************************)
NumProcs == 2
MaxReq == 3
MaxTicks == 1
MaxSeqReq == 2

Procs == 1..NumProcs

(***************************************************************************)
(* Program constants.                                                      *)
(***************************************************************************)
(* limits.fileSize: 50 * 1024 * 1024 *)
FileSizeLimit == 52428800
SafeNameMax == 50
HistoryLimit == 50

PdfMime == "application/pdf"
FRONTEND_BASE_URL == "https://flip-book-frontend.vercel.app"

MsgOnlyPdf == "Only PDF files are allowed!"
MsgFileTooLarge == "File too large"
MsgNoFile == "No PDF file uploaded. Field name must be \"bookbuddy\"."
MsgUploadFailed == "Failed to finalize permanent link. Database error."
MsgUploadOk == "File uploaded and link saved successfully."
MsgMissingFilename == "Missing filename query parameter."
MsgFileNotFound == "File not found for ID"
MsgLookupFailed == "Internal server error during database lookup."
MsgHistoryFailed == "Failed to fetch history"
MsgHealthOk == "BookBuddy Server and Database are running."
MsgHealthFailed == "Server is running but failed to connect to the database."

(***************************************************************************)
(* Character-level helpers.                                                *)
(***************************************************************************)
Alnum ==
    { "a","b","c","d","e","f","g","h","i","j","k","l","m",
      "n","o","p","q","r","s","t","u","v","w","x","y","z",
      "A","B","C","D","E","F","G","H","I","J","K","L","M",
      "N","O","P","Q","R","S","T","U","V","W","X","Y","Z",
      "0","1","2","3","4","5","6","7","8","9" }

Min(a, b) == IF a <= b THEN a ELSE b

Take(s, n) == SubSeq(s, 1, Min(n, Len(s)))

Drop(s, n) == SubSeq(s, n + 1, Len(s))

Positions(s, c) == { i \in 1..Len(s) : s[i] = c }

FirstIndexOf(s, c) ==
    IF Positions(s, c) = {} THEN 0
    ELSE CHOOSE i \in Positions(s, c) : \A j \in Positions(s, c) : i <= j

LastIndexOf(s, c) ==
    IF Positions(s, c) = {} THEN 0
    ELSE CHOOSE i \in Positions(s, c) : \A j \in Positions(s, c) : i >= j

DigitChar(d) == <<"0","1","2","3","4","5","6","7","8","9">>[d + 1]

RECURSIVE Digits(_)
Digits(n) == IF n < 10 THEN <<DigitChar(n)>>
             ELSE Digits(n \div 10) \o <<DigitChar(n % 10)>>

(***************************************************************************)
(* path.extname and path.parse(...).name of a base name (multer hands the  *)
(* handler a name without directories).                                    *)
(***************************************************************************)
Extname(s) ==
    LET d == LastIndexOf(s, ".")
    IN  IF d <= 1 \/ s = <<".", ".">> THEN <<>> ELSE SubSeq(s, d, Len(s))

ParseName(s) == SubSeq(s, 1, Len(s) - Len(Extname(s)))

(* originalName.replace(/[^a-zA-Z0-9]/g, '-').slice(0, 50) *)
SafeName(name) ==
    Take([i \in 1..Len(name) |-> IF name[i] \in Alnum THEN name[i] ELSE "-"],
         SafeNameMax)

(* `${safeName}-${Date.now()}${extension}` *)
DeriveFilename(originalname, t) ==
    SafeName(ParseName(originalname)) \o <<"-">> \o Digits(t) \o Extname(originalname)

(***************************************************************************)
(* Inputs.  A file is what multer sees of the uploaded part: its name, its *)
(* declared MIME type and its length in bytes; present = FALSE is a        *)
(* request without the "bookbuddy" field (req.file undefined).             *)
(***************************************************************************)
NamePlain == <<"a", ".", "p", "d", "f">>
NameUnder == <<"a", "_", "b", ".", "p", "d", "f">>
NameAmp == <<"a", ".", "p", "&", "f">>

Names == {NamePlain, NameUnder, NameAmp}

SmallSize == 2 * 1024 * 1024

File(n, m, s) == [present |-> TRUE, originalname |-> n, mimetype |-> m, size |-> s]

NoFile == [present |-> FALSE, originalname |-> <<>>, mimetype |-> "", size |-> 0]

Mimes == {PdfMime, "image/png"}
Sizes == {SmallSize, FileSizeLimit, FileSizeLimit + 1}

(* the files of the model: every name as a small PDF, one name with every  *)
(* declared type and length, and the request without a file                *)
AllFiles ==
    { File(n, PdfMime, SmallSize) : n \in Names }
    \cup { File(NamePlain, m, s) : m \in Mimes, s \in Sizes }
    \cup { NoFile }

(* the files uploaded concurrently *)
Files == { File(NamePlain, PdfMime, SmallSize), File(NamePlain, "image/png", SmallSize) }

(* URLs the Blob Store may hand back and errors the database client may throw *)
Urls == {"https://blob/1", "https://blob/2"}
DbErrors == {"connection refused", "relation does not exist"}

(* the clock: Date.now() and NOW() *)
StartTime == HistoryLimit
Times == StartTime..(StartTime + MaxTicks)

(***************************************************************************)
(* multer: upload.single('bookbuddy') with the fileFilter and the limits.  *)
(* The filter runs when the part's header arrives, the size limit while    *)
(* the bytes are read; the result is the message of the error passed to    *)
(* the callback, "" when there is none.                                    *)
(*                                                                         *)
(* The repository does not pin multer.  multer up to 1.4.4 parses with     *)
(* busboy 0.2, which reports a file once it is longer than fileSize;       *)
(* multer 1.4.5-lts and 2.x parse with busboy 1.x, which reports a file    *)
(* once its length reaches fileSize.  Either may be installed.             *)
(***************************************************************************)
BusboyVersions == {"0.2", "1.x"}

(* faulty variant: a filter that lets every declared type through *)
FileFilterAcceptAll(file) == ""

FileFilter(file) == IF file.mimetype # PdfMime THEN MsgOnlyPdf ELSE ""

SizeLimit(file, busboy) ==
    IF file.size > FileSizeLimit \/ (busboy = "1.x" /\ file.size = FileSizeLimit)
    THEN MsgFileTooLarge
    ELSE ""

(* faulty variant: the length is checked before the declared type *)
MulterErrorSizeFirst(file, busboy) ==
    IF ~file.present THEN ""
    ELSE IF SizeLimit(file, busboy) # "" THEN SizeLimit(file, busboy)
    ELSE FileFilter(file)

MulterError(file, busboy) ==
    IF ~file.present THEN ""
    ELSE IF FileFilter(file) # "" THEN FileFilter(file)
    ELSE SizeLimit(file, busboy)

(***************************************************************************)
(* The Blob Store (put) and the flipbook_links table.                      *)
(***************************************************************************)
Blob(path, url) == [pathname |-> path, url |-> url]

(* faulty variant: put resolves with a URL and nothing is stored *)
PutBlobLost(store, path, url) == store

(* put(filename, buffer, { addRandomSuffix: false }): the blob at the path *)
PutBlob(store, path, url) ==
    { b \in store : b.pathname # path } \cup { Blob(path, url) }

Row(f, u, t) == [filename |-> f, blob_url |-> u, uploaded_at |-> t]

(* faulty variant: ON CONFLICT (filename) DO NOTHING *)
UpsertKeepFirst(table, f, u, t) ==
    IF \E r \in table : r.filename = f THEN table ELSE table \cup { Row(f, u, t) }

(* faulty variant: the conflict clause of the first revision of the       *)
(* handler, which sets blob_url and leaves uploaded_at as it was           *)
UpsertKeepTime(table, f, u, t) ==
    { r \in table : r.filename # f }
    \cup { Row(f, u, IF \E r \in table : r.filename = f
                     THEN (CHOOSE r \in table : r.filename = f).uploaded_at
                     ELSE t) }

(* faulty variant: the table is emptied before the row is inserted *)
UpsertAlone(table, f, u, t) == { Row(f, u, t) }

(* faulty variant: the row is inserted without its URL, which a second    *)
(* statement would set                                                     *)
UpsertUrlLater(table, f, u, t) ==
    { r \in table : r.filename # f } \cup { Row(f, "", t) }

(* INSERT ... ON CONFLICT (filename) DO UPDATE SET blob_url, uploaded_at *)
Upsert(table, f, u, t) ==
    { r \in table : r.filename # f } \cup { Row(f, u, t) }

(* faulty variant: an INSERT without the ON CONFLICT clause, which raises  *)
(* unique_violation when the identifier has a row                          *)
ConflictingRowsPlainInsert(table, f) == { r \in table : r.filename = f }

(* the rows that make the INSERT raise unique_violation: none, a conflict  *)
(* on filename is resolved by DO UPDATE                                    *)
ConflictingRows(table, f) == {}

(* faulty variant: the SELECT without its WHERE clause *)
SelectAny(table, key) == table

(* SELECT ... WHERE filename = key LIMIT 1 *)
SelectByFilename(table, key) == { r \in table : r.filename = key }

(* faulty variant: ORDER BY uploaded_at ASC *)
MinRows(S) == { r \in S : \A q \in S : r.uploaded_at <= q.uploaded_at }

MaxRows(S) == { r \in S : \A q \in S : r.uploaded_at >= q.uploaded_at }

(* ORDER BY uploaded_at DESC: every order the database may return *)
RECURSIVE OrderByUploadedAtDesc(_)
OrderByUploadedAtDesc(S) ==
    IF S = {} THEN { <<>> }
    ELSE UNION { { <<r>> \o rest : rest \in OrderByUploadedAtDesc(S \ {r}) }
                 : r \in MaxRows(S) }

(* faulty variant: the SELECT without its LIMIT clause *)
SelectHistoryNoLimit(table) == OrderByUploadedAtDesc(table)

(* SELECT filename, blob_url, uploaded_at ... ORDER BY uploaded_at DESC LIMIT 50 *)
SelectHistory(table) == { Take(o, HistoryLimit) : o \in OrderByUploadedAtDesc(table) }

(* the rows of earlier uploads that the table may hold when the server starts *)
SeedRows == { Row(DeriveFilename(NamePlain, t), "https://blob/1", t) : t \in 1..StartTime }

(***************************************************************************)
(* Requests and responses.                                                 *)
(***************************************************************************)
ShareableUrl(filename) ==
    <<FRONTEND_BASE_URL, "/", "?", "f", "i", "l", "e", "=">> \o filename

Idle ==
    [kind |-> "idle", pc |-> "idle", rid |-> 0, file |-> NoFile, hasKey |-> FALSE,
     filename |-> <<>>, limit |-> 0, link |-> 0, blobUrl |-> "",
     blobCalls |-> 0, sqlCalls |-> 0]

NoResp ==
    [kind |-> "none", status |-> 0, success |-> FALSE, message |-> "",
     filename |-> <<>>, publicFileUrl |-> "", shareableUrl |-> <<>>,
     uploaded_at |-> 0, history |-> <<>>, error |-> "",
     rid |-> 0, file |-> NoFile, hasKey |-> FALSE, limit |-> 0, link |-> 0,
     blobCalls |-> 0, sqlCalls |-> 0, failedAt |-> "", sawWriter |-> 0]

(* what every response records of the request it answers *)
Answer(r) ==
    [NoResp EXCEPT !.kind = r.kind, !.rid = r.rid, !.file = r.file,
                   !.hasKey = r.hasKey, !.filename = r.filename, !.limit = r.limit,
                   !.link = r.link,
                   !.blobCalls = r.blobCalls, !.sqlCalls = r.sqlCalls]

(* res.status(400).json({ success: false, message: errorMessage }) *)
UploadRejected(r, err) ==
    [Answer(r) EXCEPT !.status = 400,
                      !.message = IF err # "" THEN err ELSE MsgNoFile]

(* faulty variant: the catch block does not return, and the success response follows *)
UploadFailedAsSuccess(r, where) ==
    [Answer(r) EXCEPT !.status = 200, !.success = TRUE, !.message = MsgUploadOk,
                      !.publicFileUrl = r.blobUrl, !.failedAt = where]

(* the catch block of the upload handler *)
UploadFailed(r, where) ==
    [Answer(r) EXCEPT !.status = 500, !.message = MsgUploadFailed, !.failedAt = where]

(* the success response of the upload handler *)
UploadSucceeded(r) ==
    [Answer(r) EXCEPT !.status = 200, !.success = TRUE, !.message = MsgUploadOk,
                      !.publicFileUrl = r.blobUrl,
                      !.shareableUrl = ShareableUrl(r.filename)]

WriterOf(f) ==
    IF \E w \in lastWriter : w.filename = f
    THEN (CHOOSE w \in lastWriter : w.filename = f).rid
    ELSE 0

(***************************************************************************)
(* The viewer's page geometry.  Sizes are CSS pixels; the code computes in *)
(* doubles and floors the result, the model computes the same quotients    *)
(* exactly over the integers (the rounding of the doubles is left out).    *)
(***************************************************************************)
Size(wd, ht) == [width |-> wd, height |-> ht]

(* Math.floor(Math.sqrt(q)) *)
FloorRoot(q, most) == CHOOSE n \in 0..most : n * n <= q /\ (n + 1) * (n + 1) > q

(* window.innerWidth < 768 *)
MobileBreakpoint == 768

CheckMobile(w) == w < MobileBreakpoint

(* the fullscreen branch: 95% of the width, 90% of the height, ratio       *)
(* 1 / Math.SQRT2; width = 0.9 h / sqrt(2) unless that exceeds 0.95 w       *)
FullscreenDimensions(w, h) ==
    IF 162 * h * h > 361 * w * w
    THEN Size((19 * w) \div 20, FloorRoot((361 * w * w) \div 200, 2 * w))
    ELSE Size(FloorRoot((81 * h * h) \div 200, h), (9 * h) \div 10)

(* the portrait box of the mobile and desktop branches: wPct% of the width *)
(* capped at maxW, height = width / 0.707; when that exceeds hPct% of the  *)
(* height, height = hPct% and width = height * 0.707; then the minimums    *)
PortraitBox(w, h, wPct, hPct, maxW, minW, minH) ==
    LET w100 == Min(wPct * w, 100 * maxW)
        tall == w100 * 1000 > hPct * h * 707
        wn == IF tall THEN hPct * h * 707 ELSE w100
        wd == IF tall THEN 100000 ELSE 100
        hn == IF tall THEN hPct * h ELSE w100 * 10
        hd == IF tall THEN 100 ELSE 707
    IN  Size(IF wn < minW * wd THEN minW ELSE wn \div wd,
             IF hn < minH * hd THEN minH ELSE hn \div hd)

MobileDimensions(w, h) == PortraitBox(w, h, 92, 60, 500, 280, 396)

DesktopDimensions(w, h) == PortraitBox(w, h, 85, 70, 800, 400, 560)

(* calculateDimensions of the main viewer, with the flags its closure holds *)
CalculateDimensions(isFullscreen, isMobile, w, h) ==
    IF isFullscreen THEN FullscreenDimensions(w, h)
    ELSE IF isMobile THEN MobileDimensions(w, h)
    ELSE DesktopDimensions(w, h)

(* faulty variant: the width is not checked against the window *)
UpdateDimensionsHeightOnly(w, h) == Size((98 * 707 * h) \div 100000, (98 * h) \div 100)

(* updateDimensions of the iframe viewers: 98% of the height, width =       *)
(* height * 0.707 unless that exceeds 98% of the width                     *)
UpdateDimensions(w, h) ==
    IF 707 * h > 1000 * w
    THEN Size((98 * w) \div 100, (980 * w) \div 707)
    ELSE Size((98 * 707 * h) \div 100000, (98 * h) \div 100)

(* calculateDimensions of the first viewer (Flipbook.jsx) *)
CalculateDimensionsV0(w, h) == PortraitBox(w, h, 90, 80, 800, 400, 500)

(* the sizes a browser window takes in the model *)
Viewport(w, h) == [w |-> w, h |-> h]
DesktopViewport == Viewport(1000, 1000)
Viewports ==
    { DesktopViewport, Viewport(1000, 500), Viewport(768, 1024), Viewport(767, 1024),
      Viewport(375, 667), Viewport(667, 375), Viewport(1440, 600), Viewport(300, 1500) }

(* a closure over the flags of one render *)
Closure(full, mobile) == [full |-> full, mobile |-> mobile]

(* the window and the geometry state of the viewers in it before their     *)
(* effects have run: dimensions is useState(calculateDimensions()) in the  *)
(* main viewer, { width: 0, height: 0 } in the iframe viewers and          *)
(* { width: 600, height: 800 } in the first viewer                         *)
ScreenInit(v) ==
    [w |-> v.w, h |-> v.h, mounted |-> FALSE,
     isFullscreen |-> FALSE, isMobile |-> FALSE,
     dimensions |-> CalculateDimensions(FALSE, FALSE, v.w, v.h),
     listener |-> Closure(FALSE, FALSE), effectDue |-> FALSE, timers |-> <<>>,
     toggles |-> 0, resizes |-> 0,
     frame |-> Size(0, 0), v0 |-> Size(600, 800)]

(* the effects of the first commit: checkMobile, and updateDimensions with *)
(* the calculateDimensions of the first render; each viewer sets its size  *)
MountedScreen(sc) ==
    [sc EXCEPT !.mounted = TRUE,
               !.isMobile = CheckMobile(sc.w),
               !.dimensions = CalculateDimensions(sc.isFullscreen, sc.isMobile, sc.w, sc.h),
               !.listener = Closure(sc.isFullscreen, sc.isMobile),
               !.effectDue = (CheckMobile(sc.w) # sc.isMobile),
               !.frame = UpdateDimensions(sc.w, sc.h),
               !.v0 = CalculateDimensionsV0(sc.w, sc.h)]

(***************************************************************************)
(* The main viewer's state (useState) and the page's URL.                  *)
(***************************************************************************)
HomeUrl == <<FRONTEND_BASE_URL, "/">>

(* the two viewers made for an iframe are told apart by rev, the file of  *)
(* the revision; pdfData = "" stands for null and for undefined; pushed is *)
(* a history variable, the values of the file parameter given to          *)
(* pushState; alerts counts the alerts shown                               *)
EmbedInit(rev, url) ==
    [rev |-> rev, url |-> url, mounted |-> FALSE, pdfData |-> "",
     isUploading |-> FALSE, pushed |-> <<>>, alerts |-> 0]

(* loadedFile and uploadClicks are history variables: the file whose load  *)
(* the mounted Document has reported, and how often 'Upload New' or        *)
(* 'Choose PDF File' was activated; fileDialog is the browser's file       *)
(* selection, open or not; numPages = 0 stands for null                    *)
UiInit(url) ==
    [url |-> url, mounted |-> FALSE, pdfData |-> "", error |-> "",
     isUploading |-> FALSE, isSharedView |-> FALSE, isSharedLoading |-> FALSE,
     showHistory |-> FALSE, history |-> <<>>, fileName |-> <<>>,
     shareableFlipbookUrl |-> <<>>,
     numPages |-> 0, currentPage |-> 1, loadedFile |-> "",
     fileDialog |-> FALSE, uploadClicks |-> 0]

(* the viewer after the lookup of a shared link to row r has succeeded *)
UiViewing(r) ==
    [UiInit(ShareableUrl(r.filename)) EXCEPT
        !.mounted = TRUE, !.isSharedView = TRUE, !.pdfData = r.blob_url,
        !.fileName = r.filename, !.shareableFlipbookUrl = ShareableUrl(r.filename)]

(* the request whose upsert is the latest write of the table, 0 when none *)
LastWrite ==
    IF \E w \in lastWriter : w.last
    THEN (CHOOSE w \in lastWriter : w.last).rid
    ELSE 0

TypeOK ==
    /\ now \in Times
    /\ nreq \in 0..MaxReq
    /\ \A p \in Procs : req[p].pc \in {"idle", "put", "sql", "respond", "select"}
    /\ \A r \in registry : r.blob_url \in Urls /\ r.uploaded_at \in 1..(StartTime + MaxTicks)

Init ==
    /\ now = StartTime
    /\ blobs = {}
    /\ registry = {}
    /\ req = [p \in Procs |-> Idle]
    /\ resp = [p \in Procs |-> NoResp]
    /\ nreq = 0
    /\ issued = {}
    /\ lastWriter = {}
    /\ ui = UiInit(HomeUrl)
    /\ net = <<>>
    /\ screen = ScreenInit(DesktopViewport)
    /\ embed = EmbedInit("part_000", HomeUrl)

(* time passes *)
Tick ==
    /\ now < StartTime + MaxTicks
    /\ now' = now + 1
    /\ UNCHANGED <<blobs, registry, req, resp, nreq, issued, lastWriter>>

(***************************************************************************)
(* POST /api/upload-pdf                                                    *)
(***************************************************************************)
(* multer has parsed the body and called back; on an accepted file the     *)
(* handler derives the identifier and calls put                            *)
UploadPdf(p, file) ==
    /\ req[p].pc = "idle"
    /\ nreq < MaxReq
    /\ nreq' = nreq + 1
    /\ \E busboy \in BusboyVersions :
          LET r == [Idle EXCEPT !.kind = "upload", !.rid = nreq + 1, !.file = file]
              err == MulterError(file, busboy)
          IN  IF err # "" \/ ~file.present
              THEN /\ resp' = [resp EXCEPT ![p] = UploadRejected(r, err)]
                   /\ UNCHANGED <<req, issued>>
              ELSE LET filename == DeriveFilename(file.originalname, now)
                   IN  /\ req' = [req EXCEPT ![p] = [r EXCEPT !.pc = "put",
                                                            !.filename = filename,
                                                            !.blobCalls = 1]]
                       /\ resp' = [resp EXCEPT ![p] = NoResp]
                       /\ issued' = issued \cup {filename}
    /\ UNCHANGED <<now, blobs, registry, lastWriter>>

(* put resolves: the blob is stored, and the handler sends the upsert *)
BlobPut(p) ==
    /\ req[p].pc = "put"
    /\ \E url \in Urls :
          /\ blobs' = PutBlob(blobs, req[p].filename, url)
          /\ req' = [req EXCEPT ![p].pc = "sql", ![p].blobUrl = url, ![p].sqlCalls = 1]
    /\ UNCHANGED <<now, registry, resp, nreq, issued, lastWriter>>

(* put rejects: the catch block answers 500 *)
BlobPutFail(p) ==
    /\ req[p].pc = "put"
    /\ resp' = [resp EXCEPT ![p] = UploadFailed(req[p], "blob")]
    /\ req' = [req EXCEPT ![p] = Idle]
    /\ UNCHANGED <<now, blobs, registry, nreq, issued, lastWriter>>

(* the database commits the upsert *)
SqlUpsert(p) ==
    /\ req[p].pc = "sql"
    /\ ConflictingRows(registry, req[p].filename) = {}
    /\ registry' = Upsert(registry, req[p].filename, req[p].blobUrl, now)
    /\ lastWriter' = { [w EXCEPT !.last = FALSE] :
                          w \in { v \in lastWriter : v.filename # req[p].filename } }
                       \cup { [filename |-> req[p].filename, rid |-> req[p].rid,
                               last |-> TRUE] }
    /\ req' = [req EXCEPT ![p].pc = "respond"]
    /\ UNCHANGED <<now, blobs, resp, nreq, issued>>

(* the upsert throws: the catch block answers 500 *)
SqlUpsertFail(p) ==
    /\ req[p].pc = "sql"
    /\ resp' = [resp EXCEPT ![p] = UploadFailed(req[p], "sql")]
    /\ req' = [req EXCEPT ![p] = Idle]
    /\ UNCHANGED <<now, blobs, registry, nreq, issued, lastWriter>>

(* the handler resumes after the upsert and sends the success response *)
UploadRespond(p) ==
    /\ req[p].pc = "respond"
    /\ resp' = [resp EXCEPT ![p] = UploadSucceeded(req[p])]
    /\ req' = [req EXCEPT ![p] = Idle]
    /\ UNCHANGED <<now, blobs, registry, nreq, issued, lastWriter>>

(***************************************************************************)
(* Query strings: URLSearchParams(window.location.search).get(name) in the *)
(* viewer and req.query[name] in the server.  The search part of a URL     *)
(* runs from the first "?" to the first "#"; pairs are separated by "&",   *)
(* a pair is split at its first "=", and "+" in a value reads as a space.  *)
(* (Percent escapes are left out: no name of the model contains "%".)      *)
(***************************************************************************)
SearchOf(url) ==
    LET q == FirstIndexOf(url, "?")
        rest == Drop(url, q)
        h == FirstIndexOf(rest, "#")
    IN  IF q = 0 THEN <<>> ELSE IF h = 0 THEN rest ELSE Take(rest, h - 1)

RECURSIVE SplitOn(_, _)
SplitOn(s, c) ==
    LET i == FirstIndexOf(s, c)
    IN  IF i = 0 THEN <<s>> ELSE <<Take(s, i - 1)>> \o SplitOn(Drop(s, i), c)

PairKey(pair) ==
    LET e == FirstIndexOf(pair, "=")
    IN  IF e = 0 THEN pair ELSE Take(pair, e - 1)

PairValue(pair) ==
    LET e == FirstIndexOf(pair, "=")
        v == IF e = 0 THEN <<>> ELSE Drop(pair, e)
    IN  [i \in 1..Len(v) |-> IF v[i] = "+" THEN " " ELSE v[i]]

NoParam == [has |-> FALSE, value |-> <<>>]

Param(v) == [has |-> TRUE, value |-> v]

QueryParam(search, name) ==
    LET pairs == SplitOn(search, "&")
        hits == { i \in 1..Len(pairs) : pairs[i] # <<>> /\ PairKey(pairs[i]) = name }
    IN  IF hits = {} THEN NoParam
        ELSE Param(PairValue(pairs[CHOOSE i \in hits : \A j \in hits : i <= j]))

FileKey == <<"f", "i", "l", "e">>
FilenameKey == <<"f", "i", "l", "e", "n", "a", "m", "e">>

(* getInitialFile: the file parameter of the page's URL, null when absent or empty *)
GetInitialFile(url) ==
    LET q == QueryParam(SearchOf(url), FileKey)
    IN  IF q.has /\ q.value # <<>> THEN q ELSE NoParam

(* fetch(`${LOOKUP_API_ENDPOINT}?filename=${filename}`) as the server reads it *)
LookupQuery(filename) ==
    QueryParam(SearchOf(<<"/api/get-pdf-url", "?">> \o FilenameKey \o <<"=">> \o filename),
               FilenameKey)

(***************************************************************************)
(* GET /api/get-pdf-url                                                    *)
(***************************************************************************)
(* an identifier no upload can derive, and the parameters API callers send *)
NeverKey == <<"z">>

(* the parameters a client sends: an identifier it has seen in a request or *)
(* a response, the identifier of the first instant, one that was never     *)
(* issued, the empty string, or none                                       *)
AllLookupParams ==
    { Param(req[q].filename) : q \in Procs } \cup { Param(resp[q].filename) : q \in Procs }
    \cup { Param(DeriveFilename(NamePlain, StartTime)), Param(NeverKey), Param(<<>>), NoParam }

(* the parameters of the lookups that run concurrently with uploads *)
LookupParams == { Param(DeriveFilename(NamePlain, t)) : t \in Times } \cup { NoParam }

(* res.status(400): the filename parameter is missing or empty *)
LookupRejected(r) ==
    [Answer(r) EXCEPT !.status = 400, !.message = MsgMissingFilename]

(* the answer to the rows the SELECT returned *)
LookupAnswered(r, rows) ==
    IF rows = {}
    THEN [Answer(r) EXCEPT !.status = 404, !.message = MsgFileNotFound]
    ELSE LET row == CHOOSE x \in rows : TRUE
         IN  [Answer(r) EXCEPT !.status = 200, !.success = TRUE,
                               !.publicFileUrl = row.blob_url,
                               !.uploaded_at = row.uploaded_at]

(* faulty variant: a failed query is answered like an unknown identifier *)
LookupFailedAsNotFound(r) ==
    [Answer(r) EXCEPT !.status = 404, !.message = MsgFileNotFound, !.failedAt = "sql"]

(* the catch block of the lookup handler *)
LookupFailed(r) ==
    [Answer(r) EXCEPT !.status = 500, !.message = MsgLookupFailed, !.failedAt = "sql"]

(* faulty variant: only an absent parameter is refused *)
MissingFilenameOnlyAbsent(param) == ~param.has

(* !filename: the parameter is absent (undefined) or the empty string *)
MissingFilename(param) == ~param.has \/ param.value = <<>>

(* the handler up to its SELECT *)
LookupArrives(p, param, link) ==
    /\ req[p].pc = "idle"
    /\ nreq < MaxReq
    /\ nreq' = nreq + 1
    /\ LET r == [Idle EXCEPT !.kind = "lookup", !.rid = nreq + 1, !.link = link,
                             !.hasKey = param.has, !.filename = param.value]
       IN  IF MissingFilename(param)
           THEN /\ resp' = [resp EXCEPT ![p] = LookupRejected(r)]
                /\ UNCHANGED req
           ELSE /\ req' = [req EXCEPT ![p] = [r EXCEPT !.pc = "select", !.sqlCalls = 1]]
                /\ resp' = [resp EXCEPT ![p] = NoResp]
    /\ UNCHANGED <<now, blobs, registry, issued, lastWriter>>

(* a caller of the API asks for an identifier *)
GetPdfUrl(p, param) == LookupArrives(p, param, 0)

(* a viewer is opened on the shareable link of upload response q and, when *)
(* the link carries a file parameter, asks for it                          *)
OpenSharedLink(p, q) ==
    /\ resp[q].kind = "upload"
    /\ resp[q].success
    /\ GetInitialFile(resp[q].shareableUrl).has
    /\ LookupArrives(p, LookupQuery(GetInitialFile(resp[q].shareableUrl).value),
                     resp[q].rid)

(* the SELECT returns *)
LookupSelect(p) ==
    /\ req[p].pc = "select"
    /\ req[p].kind = "lookup"
    /\ resp' = [resp EXCEPT ![p] =
                  [LookupAnswered(req[p], SelectByFilename(registry, req[p].filename))
                     EXCEPT !.sawWriter = WriterOf(req[p].filename)]]
    /\ req' = [req EXCEPT ![p] = Idle]
    /\ UNCHANGED <<now, blobs, registry, nreq, issued, lastWriter>>

(* the SELECT throws *)
LookupSelectFail(p) ==
    /\ req[p].pc = "select"
    /\ req[p].kind = "lookup"
    /\ resp' = [resp EXCEPT ![p] = LookupFailed(req[p])]
    /\ req' = [req EXCEPT ![p] = Idle]
    /\ UNCHANGED <<now, blobs, registry, nreq, issued, lastWriter>>

(***************************************************************************)
(* GET /api/get-history                                                    *)
(***************************************************************************)
(* the limit a caller may put in the query string; 0 stands for none *)
HistoryLimits == {0, 1, 2}

HistoryItem(row) ==
    [filename |-> row.filename, blob_url |-> row.blob_url,
     uploaded_at |-> row.uploaded_at, pages |-> 0]

(* res.json({ success: true, history }) *)
HistoryAnswered(r, rows) ==
    [Answer(r) EXCEPT !.status = 200, !.success = TRUE,
                      !.history = [i \in 1..Len(rows) |-> HistoryItem(rows[i])]]

(* the catch block of the history handler *)
HistoryFailed(r, e) ==
    [Answer(r) EXCEPT !.status = 500, !.message = MsgHistoryFailed, !.error = e,
                      !.failedAt = "sql"]

(* the handler up to its SELECT *)
GetHistory(p, limit) ==
    /\ req[p].pc = "idle"
    /\ nreq < MaxReq
    /\ nreq' = nreq + 1
    /\ req' = [req EXCEPT ![p] = [Idle EXCEPT !.kind = "history", !.rid = nreq + 1,
                                              !.limit = limit, !.pc = "select",
                                              !.sqlCalls = 1]]
    /\ resp' = [resp EXCEPT ![p] = NoResp]
    /\ UNCHANGED <<now, blobs, registry, issued, lastWriter>>

(* the SELECT returns *)
HistorySelect(p) ==
    /\ req[p].pc = "select"
    /\ req[p].kind = "history"
    /\ \E rows \in SelectHistory(registry) :
          resp' = [resp EXCEPT ![p] = HistoryAnswered(req[p], rows)]
    /\ req' = [req EXCEPT ![p] = Idle]
    /\ UNCHANGED <<now, blobs, registry, nreq, issued, lastWriter>>

(* the SELECT throws *)
HistorySelectFail(p, e) ==
    /\ req[p].pc = "select"
    /\ req[p].kind = "history"
    /\ resp' = [resp EXCEPT ![p] = HistoryFailed(req[p], e)]
    /\ req' = [req EXCEPT ![p] = Idle]
    /\ UNCHANGED <<now, blobs, registry, nreq, issued, lastWriter>>

(***************************************************************************)
(* GET /api/health                                                         *)
(***************************************************************************)
(* res.json({ status: 'OK', message, db_status: 'Connected' }) *)
HealthAnswered(r) ==
    [Answer(r) EXCEPT !.status = 200, !.message = MsgHealthOk]

(* the catch block of the health handler *)
HealthFailed(r, e) ==
    [Answer(r) EXCEPT !.status = 500, !.message = MsgHealthFailed, !.error = e,
                      !.failedAt = "sql"]

(* the handler up to its SELECT 1 *)
GetHealth(p) ==
    /\ req[p].pc = "idle"
    /\ nreq < MaxReq
    /\ nreq' = nreq + 1
    /\ req' = [req EXCEPT ![p] = [Idle EXCEPT !.kind = "health", !.rid = nreq + 1,
                                              !.pc = "select", !.sqlCalls = 1]]
    /\ resp' = [resp EXCEPT ![p] = NoResp]
    /\ UNCHANGED <<now, blobs, registry, issued, lastWriter>>

(* SELECT 1 returns *)
HealthSelect(p) ==
    /\ req[p].pc = "select"
    /\ req[p].kind = "health"
    /\ resp' = [resp EXCEPT ![p] = HealthAnswered(req[p])]
    /\ req' = [req EXCEPT ![p] = Idle]
    /\ UNCHANGED <<now, blobs, registry, nreq, issued, lastWriter>>

(* SELECT 1 throws *)
HealthSelectFail(p, e) ==
    /\ req[p].pc = "select"
    /\ req[p].kind = "health"
    /\ resp' = [resp EXCEPT ![p] = HealthFailed(req[p], e)]
    /\ req' = [req EXCEPT ![p] = Idle]
    /\ UNCHANGED <<now, blobs, registry, nreq, issued, lastWriter>>

(***************************************************************************)
(* The system.                                                             *)
(***************************************************************************)
Next ==
    \/ Tick /\ UNCHANGED client
    \/ \E p \in Procs, file \in Files : UploadPdf(p, file) /\ UNCHANGED client
    \/ \E p \in Procs : BlobPut(p) /\ UNCHANGED client
    \/ \E p \in Procs : BlobPutFail(p) /\ UNCHANGED client
    \/ \E p \in Procs : SqlUpsert(p) /\ UNCHANGED client
    \/ \E p \in Procs : SqlUpsertFail(p) /\ UNCHANGED client
    \/ \E p \in Procs : UploadRespond(p) /\ UNCHANGED client
    \/ \E p \in Procs, param \in LookupParams : GetPdfUrl(p, param) /\ UNCHANGED client
    \/ \E p \in Procs, q \in Procs : OpenSharedLink(p, q) /\ UNCHANGED client
    \/ \E p \in Procs : LookupSelect(p) /\ UNCHANGED client
    \/ \E p \in Procs : LookupSelectFail(p) /\ UNCHANGED client
    \/ \E p \in Procs : GetHistory(p, 0) /\ UNCHANGED client
    \/ \E p \in Procs : HistorySelect(p) /\ UNCHANGED client
    \/ \E p \in Procs, e \in DbErrors : HistorySelectFail(p, e) /\ UNCHANGED client

Spec == Init /\ [][Next]_vars

(***************************************************************************)
(* The same handlers serving one request at a time, over every input of    *)
(* the model and over a table that already holds rows.                     *)
(***************************************************************************)
InitSeq ==
    /\ now = StartTime
    /\ blobs = {}
    /\ registry \in { {}, SeedRows }
    /\ req = [p \in Procs |-> Idle]
    /\ resp = [p \in Procs |-> NoResp]
    /\ nreq = 0
    /\ issued = { r.filename : r \in registry }
    /\ lastWriter = {}
    /\ ui = UiInit(HomeUrl)
    /\ net = <<>>
    /\ screen = ScreenInit(DesktopViewport)
    /\ embed = EmbedInit("part_000", HomeUrl)

(* a client may send the next request: nothing is in flight *)
SeqReady == nreq < MaxSeqReq /\ \A p \in Procs : req[p].pc = "idle"

NextSeq ==
    \/ Tick /\ UNCHANGED client
    \/ SeqReady /\ \E file \in AllFiles : UploadPdf(1, file) /\ UNCHANGED client
    \/ \E p \in Procs : BlobPut(p) /\ UNCHANGED client
    \/ \E p \in Procs : BlobPutFail(p) /\ UNCHANGED client
    \/ \E p \in Procs : SqlUpsert(p) /\ UNCHANGED client
    \/ \E p \in Procs : SqlUpsertFail(p) /\ UNCHANGED client
    \/ \E p \in Procs : UploadRespond(p) /\ UNCHANGED client
    \/ SeqReady /\ \E param \in AllLookupParams : GetPdfUrl(2, param) /\ UNCHANGED client
    \/ SeqReady /\ OpenSharedLink(2, 1) /\ UNCHANGED client
    \/ \E p \in Procs : LookupSelect(p) /\ UNCHANGED client
    \/ \E p \in Procs : LookupSelectFail(p) /\ UNCHANGED client
    \/ SeqReady /\ \E limit \in HistoryLimits : GetHistory(2, limit) /\ UNCHANGED client
    \/ \E p \in Procs : HistorySelect(p) /\ UNCHANGED client
    \/ \E p \in Procs, e \in DbErrors : HistorySelectFail(p, e) /\ UNCHANGED client
    \/ SeqReady /\ GetHealth(2) /\ UNCHANGED client
    \/ \E p \in Procs : HealthSelect(p) /\ UNCHANGED client
    \/ \E p \in Procs, e \in DbErrors : HealthSelectFail(p, e) /\ UNCHANGED client

SpecSeq == InitSeq /\ [][NextSeq]_vars

(***************************************************************************)
(* The main viewer (the Flipbook component with the history list) talking  *)
(* to the handlers above.  net lists the calls the viewer has started, in  *)
(* order: a call is "sent" until it reaches the server, "server" while the *)
(* handler of slot `slot` works on it, and "done" or "failed" once the     *)
(* viewer has run its continuation; "refused" is an upload the viewer      *)
(* turned down itself.  sends counts the HTTP requests sent for the call.  *)
(***************************************************************************)
(* 30 * 1024 * 1024 *)
MAX_FILE_SIZE == 31457280

ErrNotPdf == "Please select a valid PDF file (.pdf)"
ErrTooBig == "File size exceeds maximum limit of 30MB"
ErrNetwork == "Network error. Check your internet connection."
ErrFetch == "Failed to fetch"
ErrIdNotFound == "File ID not found. The link may be broken or expired."
ErrIncomplete == "Database record is incomplete. Cannot retrieve the Blob URL."
ErrHistoryLoad == "Failed to load flipbook from history"
ErrInvalidData == "Invalid flipbook data"
ErrInvalidResponse == "Invalid server response: Missing file URL or filename."

(* the files a user picks or drops *)
ViewerFiles ==
    { File(NamePlain, PdfMime, SmallSize), File(NamePlain, "image/png", SmallSize),
      File(NamePlain, PdfMime, MAX_FILE_SIZE + 1) }

(* the rows of the table when the page is opened, and the URLs it is       *)
(* opened with: the bare page, a link to a row, a link to no row           *)
ViewRows ==
    { Row(DeriveFilename(NamePlain, 1), "https://blob/1", 1),
      Row(DeriveFilename(NamePlain, 2), "https://blob/2", 2) }

PageUrls ==
    { HomeUrl, ShareableUrl(DeriveFilename(NamePlain, 1)), ShareableUrl(NeverKey) }

Call(kind, origin, filename, file) ==
    [kind |-> kind, origin |-> origin, filename |-> filename, file |-> file,
     state |-> "sent", sends |-> 1, slot |-> 0]

Ok2xx(r) == r.status >= 200 /\ r.status < 300

(* faulty variant: a failed call is sent again *)
SettledResend(call, failed) ==
    IF failed THEN [call EXCEPT !.state = "sent", !.sends = @ + 1, !.slot = 0]
    ELSE [call EXCEPT !.state = "done"]

(* the call is over: its continuation has run, nothing is sent again *)
Settled(call, failed) == [call EXCEPT !.state = IF failed THEN "failed" ELSE "done"]

(* what the page shows *)
UploadSectionVisible == ~ui.isSharedView /\ ui.pdfData = "" /\ ~ui.isUploading

(* faulty variant: the guard without isSharedLoading *)
DocumentMountedWhileLoading == ui.pdfData # "" /\ ~ui.isUploading

(* pdfData && !isUploading && !isSharedLoading: <Document file={pdfData}> *)
DocumentMounted == ui.pdfData # "" /\ ~ui.isUploading /\ ~ui.isSharedLoading

ToolbarVisible == DocumentMounted /\ ~screen.isFullscreen

ErrorVisible == ui.error # ""

(* the error fetchSharedPdf throws on response r ("" when none); arrived   *)
(* is FALSE when fetch itself rejected                                     *)
SharedLookupError(arrived, r) ==
    IF ~arrived THEN ErrFetch
    ELSE IF r.status = 404 THEN ErrIdNotFound
    ELSE IF ~Ok2xx(r) THEN r.message
    ELSE IF r.publicFileUrl = "" THEN ErrIncomplete
    ELSE ""

(* fetchSharedPdf after its fetch: try, catch and finally *)
FetchSharedPdfSettled(u, filename, arrived, r) ==
    IF SharedLookupError(arrived, r) = ""
    THEN [u EXCEPT !.pdfData = r.publicFileUrl, !.numPages = 0, !.error = "",
                   !.fileName = filename, !.isSharedLoading = FALSE]
    ELSE [u EXCEPT !.error = SharedLookupError(arrived, r), !.pdfData = "",
                   !.isSharedLoading = FALSE]

HistoryLookupError(arrived, r) ==
    IF ~arrived THEN ErrFetch
    ELSE IF ~Ok2xx(r) THEN ErrHistoryLoad
    ELSE IF r.publicFileUrl = "" THEN ErrInvalidData
    ELSE ""

(* handleHistorySelect after its fetch *)
HistorySelectSettled(u, filename, arrived, r) ==
    IF HistoryLookupError(arrived, r) = ""
    THEN [u EXCEPT !.pdfData = r.publicFileUrl,
                   !.shareableFlipbookUrl = ShareableUrl(filename),
                   !.fileName = filename, !.url = ShareableUrl(filename),
                   !.isSharedLoading = FALSE]
    ELSE [u EXCEPT !.error = HistoryLookupError(arrived, r), !.pdfData = "",
                   !.isSharedLoading = FALSE]

(* loadHistory after its fetch: a failure is logged and shows nothing *)
LoadHistorySettled(u, arrived, r) ==
    IF arrived /\ Ok2xx(r) THEN [u EXCEPT !.history = r.history] ELSE u

UploadError(arrived, r) ==
    IF ~arrived THEN ErrNetwork
    ELSE IF ~Ok2xx(r) THEN r.message
    ELSE IF r.filename = <<>> \/ r.publicFileUrl = "" THEN ErrInvalidResponse
    ELSE ""

(* uploadPdfToServer after xhr.send: the promise, then try, catch, finally *)
UploadSettled(u, arrived, r) ==
    IF UploadError(arrived, r) = ""
    THEN [u EXCEPT !.pdfData = r.publicFileUrl,
                   !.shareableFlipbookUrl = ShareableUrl(r.filename),
                   !.history = <<[filename |-> r.filename, blob_url |-> "",
                                  uploaded_at |-> now, pages |-> 0]>> \o @,
                   !.url = ShareableUrl(r.filename),
                   !.isUploading = FALSE]
    ELSE [u EXCEPT !.error = UploadError(arrived, r), !.pdfData = "",
                   !.isUploading = FALSE]

(* the mount effect: getInitialFile, the lookup of a shared link, and      *)
(* loadHistory                                                             *)
MountEffect ==
    /\ ~ui.mounted
    /\ LET f == GetInitialFile(ui.url)
       IN  /\ ui' = IF f.has
                    THEN [ui EXCEPT !.mounted = TRUE, !.isSharedView = TRUE,
                                    !.shareableFlipbookUrl = ShareableUrl(f.value),
                                    !.error = "", !.pdfData = "",
                                    !.isSharedLoading = TRUE]
                    ELSE [ui EXCEPT !.mounted = TRUE]
           /\ net' = net
                     \o (IF f.has THEN <<Call("lookup", "mount", f.value, NoFile)>>
                         ELSE <<>>)
                     \o <<Call("history", "mount", <<>>, NoFile)>>
    /\ UNCHANGED <<server, screen, embed>>

(* handleFileChange and handleDrop, then uploadPdfToServer up to xhr.send *)
HandleFileChange(file) ==
    /\ ui.mounted /\ UploadSectionVisible /\ ~ui.showHistory
    /\ Len(net) < MaxReq
    /\ IF file.mimetype # PdfMime
       THEN /\ ui' = [ui EXCEPT !.error = ErrNotPdf, !.fileDialog = FALSE]
            /\ net' = net
       ELSE LET u == [ui EXCEPT !.error = "", !.numPages = 0, !.pdfData = "",
                                !.loadedFile = "", !.shareableFlipbookUrl = <<>>,
                                !.currentPage = 1,
                                !.isUploading = TRUE, !.fileName = file.originalname,
                                !.fileDialog = FALSE]
                call == Call("upload", "upload", <<>>, file)
            IN  IF file.size > MAX_FILE_SIZE
                THEN /\ ui' = [u EXCEPT !.error = ErrTooBig, !.isUploading = FALSE]
                     /\ net' = Append(net, [call EXCEPT !.state = "refused", !.sends = 0])
                ELSE /\ ui' = u
                     /\ net' = Append(net, call)
    /\ UNCHANGED <<server, screen, embed>>

(* setShowHistory(true), from the upload section, the toolbar or the error panel *)
OpenHistory ==
    /\ ui.mounted /\ ~ui.showHistory
    /\ UploadSectionVisible \/ ToolbarVisible \/ ErrorVisible
    /\ ui' = [ui EXCEPT !.showHistory = TRUE]
    /\ UNCHANGED <<server, net, screen, embed>>

(* onClose of the history list, or Escape *)
CloseHistory ==
    /\ ui.showHistory
    /\ ui' = [ui EXCEPT !.showHistory = FALSE]
    /\ UNCHANGED <<server, net, screen, embed>>

(* handleHistorySelect up to its fetch: item k of the list, or one of the  *)
(* first three in the preview of the upload section                        *)
HandleHistorySelect(k) ==
    /\ ui.mounted
    /\ k \in 1..Len(ui.history)
    /\ ui.showHistory \/ (UploadSectionVisible /\ k <= 3)
    /\ Len(net) < MaxReq
    /\ ui' = [ui EXCEPT !.error = "", !.isSharedLoading = TRUE, !.showHistory = FALSE,
                        !.loadedFile = ""]
    /\ net' = Append(net, Call("lookup", "select", ui.history[k].filename, NoFile))
    /\ UNCHANGED <<server, screen, embed>>

RemovePDF ==
    /\ ui.mounted /\ ~ui.showHistory
    /\ ToolbarVisible \/ ErrorVisible
    /\ ui' = [ui EXCEPT !.pdfData = "", !.numPages = 0, !.error = "",
                        !.shareableFlipbookUrl = <<>>, !.currentPage = 1,
                        !.fileName = <<>>, !.loadedFile = "", !.url = HomeUrl]
    /\ UNCHANGED <<server, net, screen, embed>>

(* slot p handles no request, and no call of the viewer waits for its answer *)
SlotIdle(p) ==
    /\ req[p].pc = "idle"
    /\ \A j \in DOMAIN net : ~(net[j].state = "server" /\ net[j].slot = p)

(* a request of the viewer is handled in the first idle slot: the slots    *)
(* are names for the invocations in progress, and any idle one would do    *)
SlotFree(p) == SlotIdle(p) /\ \A q \in 1..(p - 1) : ~SlotIdle(q)

InFlight(i, kind) == net[i].kind = kind /\ net[i].state = "sent"

(* a request of the viewer reaches its handler *)
UploadReaches(i, p) ==
    /\ InFlight(i, "upload") /\ SlotFree(p)
    /\ UploadPdf(p, net[i].file)
    /\ net' = [net EXCEPT ![i].state = "server", ![i].slot = p]
    /\ UNCHANGED <<ui, screen, embed>>

LookupReaches(i, p) ==
    /\ InFlight(i, "lookup") /\ SlotFree(p)
    /\ LookupArrives(p, LookupQuery(net[i].filename), 0)
    /\ net' = [net EXCEPT ![i].state = "server", ![i].slot = p]
    /\ UNCHANGED <<ui, screen, embed>>

HistoryReaches(i, p) ==
    /\ InFlight(i, "history") /\ SlotFree(p)
    /\ GetHistory(p, 0)
    /\ net' = [net EXCEPT ![i].state = "server", ![i].slot = p]
    /\ UNCHANGED <<ui, screen, embed>>

(* the handler has answered call i *)
Answered(i, kind) ==
    /\ net[i].kind = kind /\ net[i].state = "server"
    /\ resp[net[i].slot].kind = kind

(* xhr.onload *)
UploadResponds(i) ==
    /\ Answered(i, "upload")
    /\ ui' = UploadSettled(ui, TRUE, resp[net[i].slot])
    /\ net' = [net EXCEPT ![i] = Settled(@, UploadError(TRUE, resp[net[i].slot]) # "")]
    /\ UNCHANGED <<server, screen, embed>>

(* the fetch of fetchSharedPdf or of handleHistorySelect resolves *)
LookupResponds(i) ==
    /\ Answered(i, "lookup")
    /\ LET r == resp[net[i].slot]
       IN  IF net[i].origin = "mount"
           THEN /\ ui' = FetchSharedPdfSettled(ui, net[i].filename, TRUE, r)
                /\ net' = [net EXCEPT ![i] = Settled(@, SharedLookupError(TRUE, r) # "")]
           ELSE /\ ui' = HistorySelectSettled(ui, net[i].filename, TRUE, r)
                /\ net' = [net EXCEPT ![i] = Settled(@, HistoryLookupError(TRUE, r) # "")]
    /\ UNCHANGED <<server, screen, embed>>

(* the fetch of loadHistory resolves *)
HistoryResponds(i) ==
    /\ Answered(i, "history")
    /\ ui' = LoadHistorySettled(ui, TRUE, resp[net[i].slot])
    /\ net' = [net EXCEPT ![i] = Settled(@, ~Ok2xx(resp[net[i].slot]))]
    /\ UNCHANGED <<server, screen, embed>>

(* the request does not reach the server: xhr.onerror, or fetch rejects *)
NetworkFails(i) ==
    /\ net[i].state = "sent"
    /\ ui' = CASE net[i].kind = "upload" -> UploadSettled(ui, FALSE, NoResp)
               [] net[i].kind = "history" -> LoadHistorySettled(ui, FALSE, NoResp)
               [] net[i].kind = "lookup" /\ net[i].origin = "mount" ->
                     FetchSharedPdfSettled(ui, net[i].filename, FALSE, NoResp)
               [] OTHER -> HistorySelectSettled(ui, net[i].filename, FALSE, NoResp)
    /\ net' = [net EXCEPT ![i] = Settled(@, TRUE)]
    /\ UNCHANGED <<server, screen, embed>>

(* a page is opened while the table holds the rows of earlier uploads *)
InitView ==
    /\ now = StartTime
    /\ blobs = { Blob(r.filename, r.blob_url) : r \in ViewRows }
    /\ registry = ViewRows
    /\ req = [p \in Procs |-> Idle]
    /\ resp = [p \in Procs |-> NoResp]
    /\ nreq = 0
    /\ issued = { r.filename : r \in ViewRows }
    /\ lastWriter = {}
    /\ ui \in { UiInit(url) : url \in PageUrls }
    /\ net = <<>>
    /\ screen = ScreenInit(DesktopViewport)
    /\ embed = EmbedInit("part_000", HomeUrl)

NextView ==
    \/ MountEffect
    \/ \E file \in ViewerFiles : HandleFileChange(file)
    \/ OpenHistory
    \/ CloseHistory
    \/ \E k \in 1..(Cardinality(ViewRows) + MaxReq) : HandleHistorySelect(k)
    \/ RemovePDF
    \/ \E i \in DOMAIN net, p \in Procs : UploadReaches(i, p)
    \/ \E i \in DOMAIN net, p \in Procs : LookupReaches(i, p)
    \/ \E i \in DOMAIN net, p \in Procs : HistoryReaches(i, p)
    \/ \E p \in Procs : BlobPut(p) /\ UNCHANGED client
    \/ \E p \in Procs : BlobPutFail(p) /\ UNCHANGED client
    \/ \E p \in Procs : SqlUpsert(p) /\ UNCHANGED client
    \/ \E p \in Procs : SqlUpsertFail(p) /\ UNCHANGED client
    \/ \E p \in Procs : UploadRespond(p) /\ UNCHANGED client
    \/ \E p \in Procs : LookupSelect(p) /\ UNCHANGED client
    \/ \E p \in Procs : LookupSelectFail(p) /\ UNCHANGED client
    \/ \E p \in Procs : HistorySelect(p) /\ UNCHANGED client
    \/ \E p \in Procs, e \in DbErrors : HistorySelectFail(p, e) /\ UNCHANGED client
    \/ \E i \in DOMAIN net : UploadResponds(i)
    \/ \E i \in DOMAIN net : LookupResponds(i)
    \/ \E i \in DOMAIN net : HistoryResponds(i)
    \/ \E i \in DOMAIN net : NetworkFails(i)

SpecView == InitView /\ [][NextView]_vars

(***************************************************************************)
(* The document on display: react-pdf loads the file and reports its       *)
(* number of pages, the user turns pages, and asks for another upload.     *)
(***************************************************************************)
MaxClicks == 1

(* the documents behind the URLs of the model: their numbers of pages *)
NumPagesOf(url) == IF url = "https://blob/1" THEN 3 ELSE 1

(* fileName.split('.')[0] + '.pdf' *)
PageKey(fileName) == Head(SplitOn(fileName, ".")) \o <<".", "p", "d", "f">>

(* the Document has loaded the file it was given *)
DocumentLoaded == DocumentMounted /\ ui.loadedFile = ui.pdfData

OnDocumentLoadSuccess ==
    /\ DocumentMounted /\ ~DocumentLoaded
    /\ LET n == NumPagesOf(ui.pdfData)
           h == ui.history
       IN  ui' = [ui EXCEPT
                    !.numPages = n, !.error = "", !.loadedFile = ui.pdfData,
                    !.history = IF ui.fileName = <<>> THEN h
                                ELSE [k \in 1..Len(h) |->
                                        IF h[k].filename = PageKey(ui.fileName)
                                        THEN [h[k] EXCEPT !.pages = n] ELSE h[k]]]
    /\ UNCHANGED <<server, net, screen, embed>>

OnDocumentLoadError ==
    /\ DocumentMounted /\ ~DocumentLoaded
    /\ ui' = [ui EXCEPT !.error = "Failed to load PDF. Please check the file URL or try another PDF.",
                        !.pdfData = "", !.numPages = 0,
                        !.shareableFlipbookUrl = <<>>, !.loadedFile = ""]
    /\ UNCHANGED <<server, net, screen, embed>>

(* numPages || 1 *)
PagesOrOne == IF ui.numPages = 0 THEN 1 ELSE ui.numPages

(* handlePageChange(currentPage + by) from the previous and next buttons,  *)
(* which are disabled at the first and at the last page                    *)
HandlePageChange(by) ==
    /\ ui.pdfData # ""
    /\ by = -1 => ui.currentPage > 1
    /\ by = 1 => ui.currentPage < PagesOrOne
    /\ ui' = [ui EXCEPT !.currentPage =
                  IF Min(ui.currentPage + by, PagesOrOne) < 1 THEN 1
                  ELSE Min(ui.currentPage + by, PagesOrOne)]
    /\ UNCHANGED <<server, net, screen, embed>>

(* onFlip of the book: the user has turned to page k of the pages rendered *)
OnFlip(k) ==
    /\ DocumentLoaded /\ ui.numPages > 0
    /\ k \in 1..ui.numPages /\ k # ui.currentPage
    /\ ui' = [ui EXCEPT !.currentPage = k]
    /\ UNCHANGED <<server, net, screen, embed>>

(* handleUploadClick, from the header, the upload section, the toolbar of  *)
(* the document or the error panel: fileInputRef.current?.click(), where  *)
(* the file input is part of the upload section                            *)
HandleUploadClick ==
    /\ ui.mounted /\ ~ui.showHistory /\ ~ui.fileDialog
    /\ ui.uploadClicks < MaxClicks
    /\ \/ ui.pdfData = "" /\ ~ui.isSharedView
       \/ ToolbarVisible
       \/ ErrorVisible /\ ~ui.isSharedView
    /\ ui' = [ui EXCEPT !.fileDialog = UploadSectionVisible, !.uploadClicks = @ + 1]
    /\ UNCHANGED <<server, net, screen, embed>>

(* the user closes the file selection without a file *)
DismissDialog ==
    /\ ui.fileDialog
    /\ ui' = [ui EXCEPT !.fileDialog = FALSE]
    /\ UNCHANGED <<server, net, screen, embed>>

NextPages ==
    \/ NextView
    \/ OnDocumentLoadSuccess
    \/ OnDocumentLoadError
    \/ \E by \in {-1, 1} : HandlePageChange(by)
    \/ \E k \in 1..3 : OnFlip(k)
    \/ HandleUploadClick
    \/ DismissDialog

SpecPages == InitView /\ [][NextPages]_vars

(***************************************************************************)
(* The viewers made for an iframe.  part_000 looks a shared file up when   *)
(* it is mounted and uploads a chosen file; part_002 only looks up.        *)
(***************************************************************************)
(* `${v}` of a property the body may lack *)
TemplateOf(v) ==
    IF v = <<>> THEN <<"u", "n", "d", "e", "f", "i", "n", "e", "d">> ELSE v

(* what the page renders *)
EmbedShows(e) ==
    IF e.rev = "part_000"
    THEN IF e.isUploading THEN "uploading"
         ELSE IF e.pdfData = "" THEN "upload screen" ELSE "document"
    ELSE IF e.pdfData = "" THEN "loader" ELSE "document"

(* the 'Fast Shared File Check' effect up to its fetch *)
EmbedMount ==
    /\ ~embed.mounted
    /\ Len(net) < MaxReq
    /\ LET f == GetInitialFile(embed.url)
       IN  net' = net \o (IF f.has THEN <<Call("lookup", "embed", f.value, NoFile)>>
                          ELSE <<>>)
    /\ embed' = [embed EXCEPT !.mounted = TRUE]
    /\ UNCHANGED <<server, ui, screen>>

(* uploadPdf up to its fetch: the file input of the upload screen *)
EmbedUploadPdf(file) ==
    /\ embed.mounted /\ EmbedShows(embed) = "upload screen"
    /\ Len(net) < MaxReq
    /\ embed' = [embed EXCEPT !.isUploading = TRUE]
    /\ net' = Append(net, Call("upload", "embed", <<>>, file))
    /\ UNCHANGED <<server, ui, screen>>

(* the lookup is answered: res.json(), then if (data.publicFileUrl) *)
EmbedLookupResponds(i) ==
    /\ Answered(i, "lookup") /\ net[i].origin = "embed"
    /\ LET r == resp[net[i].slot]
       IN  /\ embed' = IF r.publicFileUrl # ""
                       THEN [embed EXCEPT !.pdfData = r.publicFileUrl] ELSE embed
           /\ net' = [net EXCEPT ![i] = Settled(@, ~Ok2xx(r))]
    /\ UNCHANGED <<server, ui, screen>>

(* the upload is answered: res.json(), setPdfData, pushState, finally *)
EmbedUploadResponds(i) ==
    /\ Answered(i, "upload") /\ net[i].origin = "embed"
    /\ LET r == resp[net[i].slot]
       IN  /\ embed' = [embed EXCEPT !.pdfData = r.publicFileUrl,
                                     !.url = ShareableUrl(TemplateOf(r.filename)),
                                     !.pushed = Append(@, TemplateOf(r.filename)),
                                     !.isUploading = FALSE]
           /\ net' = [net EXCEPT ![i] = Settled(@, ~Ok2xx(r))]
    /\ UNCHANGED <<server, ui, screen>>

(* fetch rejects: the upload alerts, the lookup leaves the state alone *)
EmbedNetworkFails(i) ==
    /\ net[i].state = "sent" /\ net[i].origin = "embed"
    /\ embed' = IF net[i].kind = "upload"
                THEN [embed EXCEPT !.alerts = @ + 1, !.isUploading = FALSE]
                ELSE embed
    /\ net' = [net EXCEPT ![i] = Settled(@, TRUE)]
    /\ UNCHANGED <<server, ui, screen>>

(* the Reset button: setPdfData(null) *)
EmbedReset ==
    /\ embed.rev = "part_000" /\ EmbedShows(embed) = "document"
    /\ embed' = [embed EXCEPT !.pdfData = ""]
    /\ UNCHANGED <<server, ui, net, screen>>

InitEmbed ==
    /\ now = StartTime
    /\ blobs = { Blob(r.filename, r.blob_url) : r \in ViewRows }
    /\ registry = ViewRows
    /\ req = [p \in Procs |-> Idle]
    /\ resp = [p \in Procs |-> NoResp]
    /\ nreq = 0
    /\ issued = { r.filename : r \in ViewRows }
    /\ lastWriter = {}
    /\ ui = UiInit(HomeUrl)
    /\ net = <<>>
    /\ screen = ScreenInit(DesktopViewport)
    /\ embed \in { EmbedInit(rev, url) : rev \in {"part_000", "part_002"}, url \in PageUrls }

NextEmbed ==
    \/ EmbedMount
    \/ \E file \in ViewerFiles : EmbedUploadPdf(file)
    \/ EmbedReset
    \/ \E i \in DOMAIN net, p \in Procs : UploadReaches(i, p)
    \/ \E i \in DOMAIN net, p \in Procs : LookupReaches(i, p)
    \/ \E p \in Procs : BlobPut(p) /\ UNCHANGED client
    \/ \E p \in Procs : BlobPutFail(p) /\ UNCHANGED client
    \/ \E p \in Procs : SqlUpsert(p) /\ UNCHANGED client
    \/ \E p \in Procs : SqlUpsertFail(p) /\ UNCHANGED client
    \/ \E p \in Procs : UploadRespond(p) /\ UNCHANGED client
    \/ \E p \in Procs : LookupSelect(p) /\ UNCHANGED client
    \/ \E p \in Procs : LookupSelectFail(p) /\ UNCHANGED client
    \/ \E i \in DOMAIN net : EmbedLookupResponds(i)
    \/ \E i \in DOMAIN net : EmbedUploadResponds(i)
    \/ \E i \in DOMAIN net : EmbedNetworkFails(i)

SpecEmbed == InitEmbed /\ [][NextEmbed]_vars

(***************************************************************************)
(* The geometry of the page: the window is resized, fullscreen is toggled, *)
(* and the callbacks these schedule run.                                   *)
(***************************************************************************)
MaxToggles == 2
MaxResizes == 2

(* the effect on [calculateDimensions] runs again after a render that      *)
(* changed isFullscreen or isMobile: updateDimensions, and the listener is *)
(* registered anew                                                         *)
RunEffect ==
    /\ screen.effectDue
    /\ screen' = [screen EXCEPT
          !.dimensions = CalculateDimensions(screen.isFullscreen, screen.isMobile,
                                             screen.w, screen.h),
          !.listener = Closure(screen.isFullscreen, screen.isMobile),
          !.effectDue = FALSE]
    /\ UNCHANGED <<server, ui, net, embed>>

(* the window takes size v: checkMobile, and the registered updateDimensions *)
(* with the flags of the render that registered it                         *)
Resize(v) ==
    /\ screen.mounted
    /\ screen.resizes < MaxResizes
    /\ v # Viewport(screen.w, screen.h)
    /\ screen' = [screen EXCEPT
          !.w = v.w, !.h = v.h,
          !.isMobile = CheckMobile(v.w),
          !.dimensions = CalculateDimensions(screen.listener.full, screen.listener.mobile,
                                             v.w, v.h),
          !.effectDue = (screen.effectDue \/ CheckMobile(v.w) # screen.isMobile),
          !.frame = UpdateDimensions(v.w, v.h),
          !.v0 = CalculateDimensionsV0(v.w, v.h),
          !.resizes = @ + 1]
    /\ UNCHANGED <<server, ui, net, embed>>

(* toggleFullscreen, from the buttons shown with a document or the exit    *)
(* button of fullscreen: the timer keeps the calculateDimensions of the    *)
(* render the handler belongs to                                           *)
ToggleFullscreen ==
    /\ screen.mounted
    /\ screen.isFullscreen \/ ui.pdfData # ""
    /\ screen.toggles < MaxToggles
    /\ screen' = [screen EXCEPT
          !.isFullscreen = ~screen.isFullscreen,
          !.effectDue = TRUE,
          !.timers = Append(@, Closure(screen.isFullscreen, screen.isMobile)),
          !.toggles = @ + 1]
    /\ UNCHANGED <<server, ui, net, embed>>

(* the 100 ms timer of toggleFullscreen fires *)
TimerFires ==
    /\ screen.timers # <<>>
    /\ screen' = [screen EXCEPT
          !.dimensions = CalculateDimensions(Head(screen.timers).full,
                                             Head(screen.timers).mobile,
                                             screen.w, screen.h),
          !.timers = Tail(@)]
    /\ UNCHANGED <<server, ui, net, embed>>

(* a document is on display in a window of some size, the effects of the   *)
(* first commit have run                                                   *)
InitDims ==
    /\ now = StartTime
    /\ blobs = { Blob(r.filename, r.blob_url) : r \in ViewRows }
    /\ registry = ViewRows
    /\ req = [p \in Procs |-> Idle]
    /\ resp = [p \in Procs |-> NoResp]
    /\ nreq = 0
    /\ issued = { r.filename : r \in ViewRows }
    /\ lastWriter = {}
    /\ ui \in { UiViewing(r) : r \in ViewRows }
    /\ net = <<>>
    /\ screen \in { MountedScreen(ScreenInit(v)) : v \in Viewports }
    /\ embed = EmbedInit("part_000", HomeUrl)

NextDims ==
    \/ RunEffect
    \/ \E v \in Viewports : Resize(v)
    \/ ToggleFullscreen
    \/ TimerFires

SpecDims == InitDims /\ [][NextDims]_vars

(***************************************************************************)
(* Uploads of files whose names differ only in characters the handler      *)
(* replaces.                                                               *)
(***************************************************************************)
NameSpaced == <<"a", " ", "b", ".", "p", "d", "f">>

NamedFiles == { File(n, PdfMime, SmallSize) : n \in {NamePlain, NameUnder, NameSpaced} }

NextNames ==
    \/ Tick /\ UNCHANGED client
    \/ \E p \in Procs, file \in NamedFiles : UploadPdf(p, file) /\ UNCHANGED client
    \/ \E p \in Procs : BlobPut(p) /\ UNCHANGED client
    \/ \E p \in Procs : BlobPutFail(p) /\ UNCHANGED client
    \/ \E p \in Procs : SqlUpsert(p) /\ UNCHANGED client
    \/ \E p \in Procs : SqlUpsertFail(p) /\ UNCHANGED client
    \/ \E p \in Procs : UploadRespond(p) /\ UNCHANGED client

SpecNames == Init /\ [][NextNames]_vars

(***************************************************************************)
(* Properties.                                                             *)
(***************************************************************************)
UploadResp(p) == resp[p].kind = "upload"
LookupResp(p) == resp[p].kind = "lookup"
HistoryResp(p) == resp[p].kind = "history"

RowsOf(table, f) == { r \in table : r.filename = f }

Stored(f) == \E b \in blobs : b.pathname = f

Descending(h) == \A i \in 1..(Len(h) - 1) : h[i].uploaded_at >= h[i + 1].uploaded_at

(* lookup p read the table while the row of its identifier was the one     *)
(* written by the upload that response q answers                           *)
ReadsUploadOf(p, q) ==
    /\ LookupResp(p) /\ resp[p].failedAt = "" /\ resp[p].status # 400
    /\ UploadResp(q) /\ resp[q].success
    /\ resp[p].filename = resp[q].filename
    /\ resp[p].sawWriter = resp[q].rid

(* C1: a successful upload followed by a resolve of the returned           *)
(* identifier, with no other write of that identifier in between, returns  *)
(* the storage URL of the upload response.                                 *)
C1_UploadThenResolve ==
    \A p \in Procs, q \in Procs :
       ReadsUploadOf(p, q) =>
          /\ resp[p].status = 200
          /\ resp[p].publicFileUrl = resp[q].publicFileUrl

(* a resolve that follows the second of two uploads of one identifier *)
C1_Witness ==
    \E p \in Procs, q \in Procs :
       /\ ReadsUploadOf(p, q)
       /\ resp[p].rid > resp[q].rid
       /\ resp[q].rid > 1
       /\ resp[p].publicFileUrl = resp[q].publicFileUrl

(* C2: with the registry reachable, a resolve of an identifier that no     *)
(* upload ever issued answers 404 and carries no URL.                      *)
C2_NeverIssuedNotFound ==
    \A p \in Procs :
       ( /\ LookupResp(p) /\ resp[p].hasKey /\ resp[p].filename # <<>>
         /\ resp[p].failedAt = ""
         /\ resp[p].filename \notin issued )
       => /\ resp[p].status = 404
          /\ ~resp[p].success
          /\ resp[p].publicFileUrl = ""

(* an unknown identifier was resolved while the table held rows *)
C2_Witness ==
    \E p \in Procs :
       /\ LookupResp(p) /\ resp[p].filename \notin issued /\ resp[p].filename # <<>>
       /\ resp[p].status = 404
       /\ registry # {}

(* the upsert of upload p commits on an identifier that already has a row *)
ReuploadCommits(p) ==
    /\ req[p].pc = "sql"
    /\ req'[p].pc = "respond"
    /\ RowsOf(registry, req[p].filename) # {}

NoStorageCalls(r) == r.blobCalls = 0 /\ r.sqlCalls = 0

BeyondMulter(p) == req[p].kind = "upload" /\ req[p].pc \in {"put", "sql", "respond"}

(* C5: an upload whose declared MIME type is not application/pdf is        *)
(* answered 400 with the file-type message, and its request calls neither  *)
(* the Blob Store nor the registry.                                        *)
C5_NonPdfRejected ==
    /\ \A p \in Procs :
          (UploadResp(p) /\ resp[p].file.present /\ resp[p].file.mimetype # PdfMime)
          => /\ resp[p].status = 400
             /\ ~resp[p].success
             /\ resp[p].message = MsgOnlyPdf
             /\ NoStorageCalls(resp[p])
    /\ \A p \in Procs : BeyondMulter(p) => req[p].file.mimetype = PdfMime

(* a non-PDF upload was answered *)
C5_Witness ==
    \E p \in Procs :
       /\ UploadResp(p) /\ resp[p].file.present /\ resp[p].file.mimetype # PdfMime
       /\ resp[p].file.size <= FileSizeLimit
       /\ resp[p].status = 400

(* C6: a PDF of exactly the ceiling is accepted (it reaches the Blob Store *)
(* and, when neither store fails, is stored, registered and answered with  *)
(* success); a PDF of the ceiling plus one byte is answered 400 with the   *)
(* size message without any Blob Store or registry call.                   *)
C6_SizeCeiling ==
    \A p \in Procs :
       (UploadResp(p) /\ resp[p].file.present /\ resp[p].file.mimetype = PdfMime) =>
          /\ resp[p].file.size = FileSizeLimit + 1 =>
                /\ resp[p].status = 400
                /\ ~resp[p].success
                /\ resp[p].message = MsgFileTooLarge
                /\ NoStorageCalls(resp[p])
          /\ resp[p].file.size = FileSizeLimit =>
                /\ resp[p].status # 400
                /\ resp[p].blobCalls = 1
                /\ resp[p].failedAt = "" =>
                      /\ resp[p].success
                      /\ Stored(resp[p].filename)
                      /\ RowsOf(registry, resp[p].filename) # {}

(* C7: the MIME type is checked before the size (a file that is both       *)
(* non-PDF and too large is reported as a wrong file type), and a request  *)
(* that has called the Blob Store or the registry has passed both checks.  *)
C7_MimeBeforeSize ==
    /\ \A p \in Procs :
          ( /\ UploadResp(p) /\ resp[p].file.present
            /\ resp[p].file.mimetype # PdfMime /\ resp[p].file.size >= FileSizeLimit )
          => resp[p].status = 400 /\ resp[p].message = MsgOnlyPdf
    /\ \A p \in Procs :
          BeyondMulter(p) =>
             req[p].file.mimetype = PdfMime /\ req[p].file.size <= FileSizeLimit
    /\ \A p \in Procs :
          (UploadResp(p) /\ ~NoStorageCalls(resp[p])) =>
             resp[p].file.mimetype = PdfMime /\ resp[p].file.size <= FileSizeLimit

(* a file that fails both checks was answered *)
C7_Witness ==
    \E p \in Procs :
       /\ UploadResp(p)
       /\ resp[p].file.mimetype # PdfMime /\ resp[p].file.size > FileSizeLimit
       /\ resp[p].status = 400

(* C8: the file parameter the viewer reads from a returned shareableUrl is *)
(* the returned identifier, and the lookup the viewer then sends resolves  *)
(* to the storage URL of that upload.                                      *)
C8_LinkCarriesIdentifier ==
    /\ \A q \in Procs :
          (UploadResp(q) /\ resp[q].success) =>
             GetInitialFile(resp[q].shareableUrl) = Param(resp[q].filename)
    /\ \A p \in Procs, q \in Procs :
          ( /\ LookupResp(p) /\ resp[p].failedAt = ""
            /\ UploadResp(q) /\ resp[q].success
            /\ resp[p].link = resp[q].rid
            /\ WriterOf(resp[q].filename) = resp[q].rid )
          => /\ resp[p].status = 200
             /\ resp[p].publicFileUrl = resp[q].publicFileUrl

(* upload p's put or upsert fails *)
UploadFails(p) == req[p].pc \in {"put", "sql"} /\ req'[p].pc = "idle"

(* C9 as amended: a failed Blob Store or registry write is answered with   *)
(* the generic 500 failure, never with success; a request whose registry   *)
(* write failed creates or changes no registry row, and its blob stays in  *)
(* the Blob Store.                                                         *)
C9_FailureReported ==
    [][ \A p \in Procs :
          UploadFails(p) =>
             /\ resp'[p].status = 500
             /\ ~resp'[p].success
             /\ resp'[p].message = MsgUploadFailed
             /\ registry' = registry
             /\ blobs' = blobs
             /\ req[p].pc = "sql" => \E b \in blobs' : b.pathname = req[p].filename ]_vars

(* C9 as stated: after a failed registry write no row exists for the       *)
(* identifier.                                                             *)
C9_Original ==
    [][ \A p \in Procs :
          UploadFails(p) =>
             /\ resp'[p].status = 500
             /\ ~resp'[p].success
             /\ req[p].pc = "sql" =>
                   /\ RowsOf(registry', req[p].filename) = {}
                   /\ \E b \in blobs' : b.pathname = req[p].filename ]_vars

(* a registry write failed and left a blob without a row *)
C9_Witness ==
    \E p \in Procs :
       /\ UploadResp(p) /\ resp[p].failedAt = "sql"
       /\ resp[p].status = 500
       /\ Stored(resp[p].filename)
       /\ RowsOf(registry, resp[p].filename) = {}

(* C10: a lookup whose query fails is answered 500, never 404 and never    *)
(* with a URL; a 404 is only ever the answer to a query that succeeded.    *)
C10_LookupFailureIs5xx ==
    \A p \in Procs :
       LookupResp(p) =>
          /\ resp[p].failedAt = "sql" =>
                /\ resp[p].status = 500
                /\ ~resp[p].success
                /\ resp[p].publicFileUrl = ""
          /\ resp[p].status = 404 => resp[p].failedAt = ""

(* the query for an identifier that has a row failed *)
C10_Witness ==
    \E p \in Procs :
       /\ LookupResp(p) /\ resp[p].failedAt = "sql"
       /\ resp[p].status = 500
       /\ RowsOf(registry, resp[p].filename) # {}

(* C11: a lookup whose identifier parameter is missing or empty is         *)
(* answered 400 with the missing-parameter message, and its request sends  *)
(* no query to the registry; a lookup that has sent its query carries a    *)
(* non-empty identifier.                                                   *)
C11_MissingIdentifierRejected ==
    /\ \A p \in Procs :
          (LookupResp(p) /\ (~resp[p].hasKey \/ resp[p].filename = <<>>))
          => /\ resp[p].status = 400
             /\ ~resp[p].success
             /\ resp[p].message = MsgMissingFilename
             /\ resp[p].sqlCalls = 0
    /\ \A p \in Procs :
          (req[p].kind = "lookup" /\ req[p].pc = "select")
          => req[p].hasKey /\ req[p].filename # <<>>

(* a lookup with an empty identifier was answered while the table held rows *)
C11_Witness ==
    \E p \in Procs :
       /\ LookupResp(p) /\ resp[p].hasKey /\ resp[p].filename = <<>>
       /\ resp[p].status = 400
       /\ registry # {}

(* the SELECT of history p returns while the latest write of the table is  *)
(* the upsert of the upload that response q answers                        *)
HistoryAfterUpload(p, q) ==
    /\ req[p].kind = "history" /\ req[p].pc = "select"
    /\ resp'[p].kind = "history" /\ resp'[p].success
    /\ UploadResp(q) /\ resp[q].success
    /\ LastWrite = resp[q].rid

EverRow == { w.filename : w \in lastWriter }

(* the SELECT of lookup p returns rows or none *)
LookupReturns(p) ==
    /\ req[p].kind = "lookup" /\ req[p].pc = "select"
    /\ resp'[p].kind = "lookup" /\ resp'[p].failedAt = ""

(* C13: no step removes a registry row (an identifier that has a row has   *)
(* one in the next state, under uploads, lookups and history calls), and a *)
(* lookup whose query succeeds on an identifier that has had a row, so one *)
(* that was resolved before, answers 200 and never 404.                    *)
C13_RowsNeverDeleted ==
    [][ /\ \A r \in registry : RowsOf(registry', r.filename) # {}
        /\ EverRow = { r.filename : r \in registry }
        /\ \A p \in Procs :
              (LookupReturns(p) /\ req[p].filename \in EverRow)
              => resp'[p].status = 200 ]_vars

(* an identifier was resolved twice, and its row is in the table *)
C13_Witness ==
    \E p \in Procs, q \in Procs :
       /\ LookupResp(p) /\ LookupResp(q)
       /\ resp[p].rid > resp[q].rid
       /\ resp[p].filename = resp[q].filename
       /\ resp[p].status = 200 /\ resp[q].status = 200
       /\ RowsOf(registry, resp[p].filename) # {}

(* the upload of slot p whose upsert has committed: the one about to be    *)
(* answered or the one answered with success                               *)
Committed(p) ==
    IF req[p].kind = "upload" /\ req[p].pc = "respond"
    THEN { [rid |-> req[p].rid, filename |-> req[p].filename, url |-> req[p].blobUrl] }
    ELSE IF UploadResp(p) /\ resp[p].success
    THEN { [rid |-> resp[p].rid, filename |-> resp[p].filename,
            url |-> resp[p].publicFileUrl] }
    ELSE {}

(* C14: under every interleaving of the put and upsert steps of two        *)
(* uploads that derive one identifier, the identifier has exactly one row  *)
(* once both upserts have committed, no upsert is refused for an existing  *)
(* row, and the row's URL is the one put by the upload whose upsert        *)
(* committed last.                                                         *)
C14_ConcurrentSameIdentifier ==
    /\ \A f \in issued : Cardinality(RowsOf(registry, f)) <= 1
    /\ \A p \in Procs :
          req[p].pc = "sql" => ConflictingRows(registry, req[p].filename) = {}
    /\ \A p \in Procs, q \in Procs :
          \A a \in Committed(p), b \in Committed(q) :
             (p # q /\ a.filename = b.filename) =>
                /\ Cardinality(RowsOf(registry, a.filename)) = 1
                /\ WriterOf(a.filename) \in {a.rid, b.rid}
                /\ \A r \in RowsOf(registry, a.filename) :
                      r.blob_url = (IF WriterOf(a.filename) = a.rid THEN a.url ELSE b.url)

(* two uploads of one identifier are in flight with both upserts           *)
(* committed, the one that arrived first last, and their URLs differ       *)
C14_Witness ==
    \E p \in Procs, q \in Procs :
       /\ req[p].kind = "upload" /\ req[p].pc = "respond"
       /\ req[q].kind = "upload" /\ req[q].pc = "respond"
       /\ req[p].rid < req[q].rid
       /\ req[p].filename = req[q].filename
       /\ req[p].blobUrl # req[q].blobUrl
       /\ WriterOf(req[p].filename) = req[p].rid
       /\ RowsOf(registry, req[p].filename)
             = { Row(req[p].filename, req[p].blobUrl, now) }

(* the identifiers of the accepted uploads in flight or answered *)
DerivedFrom ==
    { [name |-> req[p].file.originalname, id |-> req[p].filename] :
         p \in { q \in Procs : BeyondMulter(q) } }
    \cup { [name |-> resp[p].file.originalname, id |-> resp[p].filename] :
              p \in { q \in Procs : UploadResp(q) /\ resp[q].blobCalls = 1 } }

(* C15: for every accepted upload, the sanitized base name has only ASCII  *)
(* letters, digits and hyphens and at most 50 characters, and every        *)
(* character of the identifier is a letter, a digit, a hyphen or the dot   *)
(* that starts the extension.                                              *)
C15_IdentifierCharset ==
    \A d \in DerivedFrom :
       LET base == SafeName(ParseName(d.name))
           dot == Len(d.id) - Len(Extname(d.name)) + 1
       IN  /\ \A i \in 1..Len(base) : base[i] \in Alnum \cup {"-"}
           /\ Len(base) <= SafeNameMax
           /\ Take(d.id, Len(base)) = base
           /\ \A i \in 1..Len(d.id) :
                 \/ d.id[i] \in Alnum \cup {"-"}
                 \/ d.id[i] = "." /\ i = dot

(* the storage calls a request has issued: at most one write to the Blob   *)
(* Store and one statement, and no write to the Blob Store for a read      *)
OneCallEach(r) ==
    /\ r.blobCalls <= 1 /\ r.sqlCalls <= 1
    /\ r.kind \in {"lookup", "history"} => r.blobCalls = 0

(* the storage call the request of slot p waits for resolves or fails *)
CallEnds(p) == req[p].pc \in {"put", "sql", "select"} /\ req'[p] # req[p]

(* the viewer's call i is over *)
Over(i) == net[i].state \in {"done", "failed", "refused"}

(* C16: no layer retries.  A request issues at most one Blob Store write   *)
(* and one registry statement, and when a storage call ends the handler    *)
(* moves on or answers that request, never back to the call; the viewer    *)
(* sends at most one request per upload or lookup, a call that is over     *)
(* stays as it is, and when an upload or a lookup fails the viewer's error *)
(* is set in the same step.                                                *)
C16_NoRetries ==
    [][ /\ \A p \in Procs :
              /\ OneCallEach(req'[p]) /\ OneCallEach(resp'[p])
              /\ CallEnds(p) =>
                    /\ req[p].pc = "put" => req'[p].pc \in {"sql", "idle"}
                    /\ req[p].pc = "sql" => req'[p].pc \in {"respond", "idle"}
                    /\ req[p].pc = "select" => req'[p].pc = "idle"
                    /\ req'[p].pc = "idle" => resp'[p].rid = req[p].rid
        /\ nreq' <= Len(net')
        /\ \A i \in DOMAIN net' : net'[i].sends <= 1
        /\ \A i \in DOMAIN net :
              /\ Over(i) => net'[i] = net[i]
              /\ /\ net[i].state # "failed" /\ net'[i].state = "failed"
                 /\ net[i].kind \in {"upload", "lookup"}
                 => ui'.error # ""
      ]_vars

(* an upload of the viewer whose Blob Store write failed has been reported *)
(* to the user, and a lookup of the viewer that never reached the server   *)
(* has failed, each sent once                                              *)
C16_Witness ==
    /\ \E i \in DOMAIN net :
          /\ net[i].kind = "upload" /\ net[i].state = "failed" /\ net[i].sends = 1
          /\ net[i].slot \in Procs
          /\ resp[net[i].slot].kind = "upload" /\ resp[net[i].slot].failedAt = "blob"
          /\ ui.error = MsgUploadFailed
    /\ \E j \in DOMAIN net :
          /\ net[j].kind = "lookup" /\ net[j].state = "failed" /\ net[j].slot = 0

(* what the client reads of a response *)
Body(a) ==
    [status |-> a.status, success |-> a.success, message |-> a.message,
     error |-> a.error, publicFileUrl |-> a.publicFileUrl, history |-> a.history]

(* the response the handler of failed response a sends when the error it   *)
(* caught carries message e                                                *)
FailedWith(a, e) ==
    CASE a.kind = "upload" -> UploadFailed(a, a.failedAt)
      [] a.kind = "lookup" -> LookupFailed(a)
      [] a.kind = "history" -> HistoryFailed(a, e)
      [] a.kind = "health" -> HealthFailed(a, e)

(* C17: the body of an error response does not depend on the message of    *)
(* the storage or persistence error behind it: whatever that message, the  *)
(* handler (upload, lookup, history, health) sends the same body.          *)
C17_ErrorBodyIndependent ==
    \A p \in Procs :
       resp[p].failedAt # "" =>
          \A e \in DbErrors : Body(resp[p]) = Body(FailedWith(resp[p], e))

(* the identifier in the address of the page *)
FileOfPage(u) == GetInitialFile(u.url)

(* lookup i of the viewer is answered in this step, for identifier f, with *)
(* a row                                                                   *)
LookupDelivers(i, f) ==
    /\ net[i].kind = "lookup" /\ net[i].state = "server" /\ net'[i].state = "done"
    /\ net[i].filename = f
    /\ resp[net[i].slot].kind = "lookup" /\ resp[net[i].slot].status = 200
    /\ resp[net[i].slot].filename = f

(* C18: in a viewer opened with a file parameter no document is rendered   *)
(* before the response of the lookup has arrived: while the Document       *)
(* component is mounted no lookup is pending and the lookup of the         *)
(* identifier in the address has succeeded, and the URL the component is   *)
(* given is set only in the step in which that lookup's response arrives,  *)
(* to the URL in that response.                                            *)
C18_NoDocumentBeforeLookup ==
    [][ ui'.isSharedView =>
          /\ DocumentMounted' =>
                /\ FileOfPage(ui').has
                /\ \A i \in DOMAIN net' : net'[i].kind = "lookup" => net'[i].state # "sent"
                                                               /\ net'[i].state # "server"
                /\ \E i \in DOMAIN net' :
                      /\ net'[i].kind = "lookup" /\ net'[i].state = "done"
                      /\ net'[i].filename = FileOfPage(ui').value
          /\ ui'.pdfData # ui.pdfData /\ ui'.pdfData # "" =>
                \E i \in DOMAIN net :
                   /\ LookupDelivers(i, FileOfPage(ui').value)
                   /\ ui'.pdfData = resp[net[i].slot].publicFileUrl
      ]_vars

(* the page was opened on a link, the lookup of the mount effect has       *)
(* succeeded, and the document of the row is on display                    *)
C18_Witness ==
    /\ ui.isSharedView /\ DocumentMounted
    /\ \E i \in DOMAIN net :
          /\ net[i].kind = "lookup" /\ net[i].origin = "mount" /\ net[i].state = "done"
          /\ net[i].filename = FileOfPage(ui).value
          /\ \E r \in registry : r.filename = net[i].filename /\ r.blob_url = ui.pdfData

(* every callback scheduled so far has run *)
CallbacksDone == ~screen.effectDue /\ screen.timers = <<>>

(* C19: the dimensions are recomputed on entering and leaving fullscreen:  *)
(* after toggleFullscreen, once the re-run effect and the 100 ms timer     *)
(* have run, dimensions is calculateDimensions of the current fullscreen   *)
(* flag, mobile flag and window size.                                      *)
C19_RecomputedAfterToggle ==
    screen.toggles > 0 /\ CallbacksDone =>
       screen.dimensions = CalculateDimensions(screen.isFullscreen, screen.isMobile,
                                               screen.w, screen.h)

(* a size inside the window *)
Fits(d) == d.width <= screen.w /\ d.height <= screen.h

(* a size inside the window except where it is the minimum of its viewer *)
FitsOrMinimum(d, minW, minH) ==
    /\ d.width <= screen.w \/ d.width = minW
    /\ d.height <= screen.h \/ d.height = minH

(* the sizes calculateDimensions yields for the window in its branches *)
Branches ==
    { CalculateDimensions(full, mobile, screen.w, screen.h) : full, mobile \in BOOLEAN }

(* C20 as amended: for every window size, the size on display is the       *)
(* output of a branch of calculateDimensions for that window; the          *)
(* fullscreen branch and updateDimensions of the iframe viewers fit the    *)
(* window; the mobile and desktop branches and the first viewer fit the    *)
(* window except where a side is at its minimum (280 x 396, 400 x 560,     *)
(* 400 x 500).                                                             *)
C20_FitsUnlessMinimum ==
    /\ screen.dimensions \in Branches
    /\ Fits(FullscreenDimensions(screen.w, screen.h))
    /\ FitsOrMinimum(MobileDimensions(screen.w, screen.h), 280, 396)
    /\ FitsOrMinimum(DesktopDimensions(screen.w, screen.h), 400, 560)
    /\ Fits(screen.frame)
    /\ FitsOrMinimum(screen.v0, 400, 500)

(* C20 as stated: the computed size fits the window in every branch of     *)
(* calculateDimensions, in updateDimensions and in the first viewer        *)
C20_Original ==
    /\ \A d \in Branches : Fits(d)
    /\ Fits(screen.dimensions)
    /\ Fits(screen.frame)
    /\ Fits(screen.v0)

(* after a resize to a window taller than the portrait box, the size of    *)
(* the iframe viewers was cut to the width of the window, and the          *)
(* fullscreen size is on display                                           *)
C20_Witness ==
    /\ screen.resizes > 0 /\ screen.isFullscreen /\ CallbacksDone
    /\ 707 * screen.h > 1000 * screen.w
    /\ screen.frame = Size((98 * screen.w) \div 100, (980 * screen.w) \div 707)
    /\ screen.dimensions = FullscreenDimensions(screen.w, screen.h)
    /\ Fits(screen.dimensions)

(* a row, or an item of a response, with its URL and its upload time *)
Complete(x) == x.blob_url # "" /\ x.uploaded_at > 0

(* C21: every row of the registry has a storage URL, and no lookup or      *)
(* history response shows a row whose URL or upload time is missing: the   *)
(* upsert writes identifier, URL and time in one statement.                *)
C21_RowsComplete ==
    /\ \A r \in registry : Complete(r)
    /\ \A p \in Procs :
          /\ LookupResp(p) /\ resp[p].status = 200 =>
                resp[p].publicFileUrl # "" /\ resp[p].uploaded_at > 0
          /\ HistoryResp(p) /\ resp[p].status = 200 =>
                \A i \in 1..Len(resp[p].history) : Complete(resp[p].history[i])

(* a history response lists a row while an upload of the same identifier   *)
(* has put its blob and waits for its upsert                               *)
C21_Witness ==
    \E p, q \in Procs :
       /\ HistoryResp(p) /\ resp[p].status = 200 /\ Len(resp[p].history) > 0
       /\ req[q].pc = "sql"
       /\ resp[p].history[1].filename = req[q].filename

(* the upload of slot p has put its blob and holds the URL put returned *)
HoldsUrl(p) == req[p].kind = "upload" /\ req[p].pc \in {"sql", "respond"}

(* the store holds a blob at path f after the step *)
StoredNext(f) == \E b \in blobs' : b.pathname = f

(* C28: under any interleaving of uploads and any failures, every row of   *)
(* the registry names a blob that was written to the Blob Store, and its   *)
(* URL is the URL put returned to the upload that wrote the row: a row is  *)
(* written or changed only by an upload whose put has succeeded, with that *)
(* upload's identifier and URL.                                            *)
C28_RowsHaveBlobs ==
    [][ /\ \A r \in registry' : StoredNext(r.filename)
        /\ \A p \in Procs : HoldsUrl(p)' =>
              req'[p].blobUrl \in Urls /\ StoredNext(req'[p].filename)
        /\ \A r \in registry' \ registry :
              \E p \in Procs : /\ HoldsUrl(p) /\ req[p].pc = "sql"
                               /\ r.filename = req[p].filename
                               /\ r.blob_url = req[p].blobUrl
      ]_vars

(* two uploads of one identifier have both put their blob; the put of one  *)
(* has failed before and the row of the other is written                   *)
C28_Witness ==
    /\ \E r \in registry : Stored(r.filename)
    /\ \E p \in Procs : UploadResp(p) /\ resp[p].failedAt = "blob"
    /\ \E p \in Procs : HoldsUrl(p) /\ req[p].pc = "respond"

(* the uploads multer has accepted, in progress or answered: the name of   *)
(* the file, the identifier derived, and the timestamps that derive it     *)
AcceptedUploads ==
    LET Of(r) == [name |-> r.file.originalname, id |-> r.filename,
                  tokens |-> { t \in Times :
                                  r.filename = DeriveFilename(r.file.originalname, t) }]
    IN  { Of(req[p]) : p \in { q \in Procs : BeyondMulter(q) } }
        \cup { Of(resp[p]) : p \in { q \in Procs : UploadResp(q) /\ resp[q].filename # <<>> } }

(* C23: two accepted uploads derive the same identifier only if they got   *)
(* the same timestamp and their files have the same name; with different   *)
(* names, or different timestamps, the identifiers differ.                 *)
C23_IdentifiersDiffer ==
    \A a, b \in AcceptedUploads :
       a.id = b.id => a.name = b.name /\ a.tokens = b.tokens

(* the viewer's upload i is over in this step: refused for its size when   *)
(* it is started, answered, or failed on the network                       *)
UploadEnds(i) ==
    /\ i \in DOMAIN net' /\ net'[i].kind = "upload"
    /\ net'[i].state \in {"done", "failed", "refused"}
    /\ i \in DOMAIN net => net[i].state \in {"sent", "server"}

(* C25: when an upload started in the viewer finishes, isUploading is      *)
(* false and exactly one of pdfData and error is set: the document URL of  *)
(* the response on success, an error message on a refused size or any      *)
(* failure.                                                                *)
C25_UploadEndsOneWay ==
    [][ \A i \in DOMAIN net' :
           UploadEnds(i) =>
              /\ ~ui'.isUploading
              /\ (ui'.pdfData # "") # (ui'.error # "")
              /\ net'[i].state = "done" => ui'.pdfData = resp[net[i].slot].publicFileUrl
              /\ net'[i].state # "done" => ui'.error # ""
      ]_vars

(* calls i and j are selections from the history, j made after i *)
SelectedInTurn(i, j) ==
    /\ i < j
    /\ net[i].kind = "lookup" /\ net[i].origin = "select"
    /\ net[j].kind = "lookup" /\ net[j].origin = "select"

(* the document, the share link and the address of the page are those of   *)
(* identifier f after the step                                             *)
ShowsNext(f) ==
    /\ \E r \in registry : r.filename = f /\ ui'.pdfData = r.blob_url
    /\ ui'.shareableFlipbookUrl = ShareableUrl(f)
    /\ ui'.url = ShareableUrl(f)
    /\ ui'.fileName = f

(* C27: when two history items are selected one after the other, then in   *)
(* the step in which the second of the two lookups to complete has         *)
(* succeeded, whichever it is, the document, the share link and the        *)
(* address are those of the item selected last.                            *)
C27_LastSelectionShown ==
    [][ \A i, j \in DOMAIN net :
           /\ SelectedInTurn(i, j)
           /\ net'[i].state = "done" /\ net'[j].state = "done"
           /\ net[i].state # "done" \/ net[j].state # "done"
           => ShowsNext(net[j].filename)
      ]_vars

(* the Document reports in this step that its file has loaded *)
LoadReported == DocumentMounted /\ ~DocumentLoaded /\ ui'.loadedFile = ui.pdfData

(* item k of the viewer's history was added by an upload of this session,  *)
(* and its document is the one on display                                  *)
UploadedHere(h, k) == h[k].blob_url = "" /\ ui.url = ShareableUrl(h[k].filename)

(* C22: when a document uploaded in this session finishes loading, the     *)
(* entry of the viewer's history whose filename is the identifier of that  *)
(* upload has its pages set to the number of pages of the document.        *)
C22_PagesOfUploadRecorded ==
    [][ LoadReported =>
           \A k \in 1..Len(ui'.history) :
              UploadedHere(ui'.history, k) =>
                 ui'.history[k].pages = NumPagesOf(ui.pdfData)
      ]_vars

(* C26: whenever a document with numPages pages is on display, the current *)
(* page is between 1 and numPages.                                         *)
C26_CurrentPageInRange ==
    DocumentLoaded /\ ui.numPages > 0 =>
       1 <= ui.currentPage /\ ui.currentPage <= ui.numPages

(* C30: with a document on display in the non-shared view, activating      *)
(* 'Upload New' opens the file selection.                                  *)
C30_UploadNewOpensSelection ==
    [][ /\ ui'.uploadClicks > ui.uploadClicks
        /\ DocumentMounted /\ ~ui.isSharedView
        => ui'.fileDialog
      ]_vars

(* the answer r to call i is handed to the viewer in this step *)
Delivered(i, kind) == Answered(i, kind) /\ net'[i].state # "server"

(* C24: in every viewer that looks a shared link up, a lookup answered 404 *)
(* leaves the viewer out of its loading state and showing the 'broken or   *)
(* expired link' message, which no other failure of the lookup shows.      *)
C24_BrokenLinkReported ==
    [][ \A i \in DOMAIN net :
           Delivered(i, "lookup") /\ resp[net[i].slot].status = 404 =>
              /\ net[i].origin = "mount" =>
                    /\ ~ui'.isSharedLoading /\ ui'.error = ErrIdNotFound
                    /\ \A arrived \in BOOLEAN, r \in {resp[p] : p \in Procs} :
                          (~arrived \/ r.status # 404) =>
                             SharedLookupError(arrived, r) # ErrIdNotFound
              /\ net[i].origin = "embed" =>
                    /\ EmbedShows(embed') # "loader"
                    /\ EmbedShows(embed') = "broken link"
      ]_vars

(* C29: in the iframe viewer an upload that is answered with an error or   *)
(* that fails leaves pdfData null and pushes no file parameter.            *)
C29_OnlySuccessInstalls ==
    [][ \A i \in DOMAIN net :
           /\ net[i].kind = "upload" /\ net[i].origin = "embed"
           /\ net[i].state \in {"sent", "server"}
           /\ net'[i].state = "failed"
           => embed'.pdfData = "" /\ embed'.pushed = embed.pushed
      ]_vars

====
